---- MODULE Spec2Model ----
(***************************************************************************)
(* A model of the beach-informs backend (src/backend/server.py): the       *)
(* FastAPI request handlers, the bearer-token check, the aiomysql          *)
(* connection pool, the MySQL tables and the startup bootstrap.            *)
(*                                                                         *)
(* Time is counted in ticks, TicksPerSecond ticks to the second, so that   *)
(* the truncation of a timestamp to whole seconds is visible.  Strings are *)
(* TLA+ strings; prefixes and digits are read with SubSeq.                 *)
(***************************************************************************)
EXTENDS Integers, Sequences, FiniteSets, TLC

\* ------------------------------------------------------------------ bounds

TicksPerSecond == 2
MaxOffset == 2
MaxInFlight == 2
MaxRequests == 2
NumProcs == 2
MaxStartups == 3

\* ------------------------------------------------------- program constants

SECRET_KEY == "your-secret-key-change-in-production"
ALGORITHM == "HS256"
ACCESS_TOKEN_EXPIRE_MINUTES == 60 * 24
minsize == 1
maxsize == 10

HTTP_200_OK == 200
HTTP_401_UNAUTHORIZED == 401
HTTP_403_FORBIDDEN == 403
HTTP_422_UNPROCESSABLE_ENTITY == 422
HTTP_500_INTERNAL_SERVER_ERROR == 500

\* Python's None, kept a string so that it compares with every identity.
None == "None"

\* ------------------------------------------------------------------- clock

\* timedelta(minutes=ACCESS_TOKEN_EXPIRE_MINUTES), in seconds and in ticks.
ExpireSeconds == ACCESS_TOKEN_EXPIRE_MINUTES * 60
ExpireTicks == ExpireSeconds * TicksPerSecond

\* The instants the clock is observed at: around the start and around one
\* token lifetime later.
Instants == (0 .. MaxOffset) \cup ((ExpireTicks - 1) .. (ExpireTicks + MaxOffset))

\* ----------------------------------------------------------------- strings

startswith(s, prefix) ==
    /\ Len(s) >= Len(prefix)
    /\ SubSeq(s, 1, Len(prefix)) = prefix

Digits == {"0", "1", "2", "3", "4", "5", "6", "7", "8", "9"}

IsDigits(s) ==
    /\ Len(s) > 0
    /\ \A i \in 1 .. Len(s) : SubSeq(s, i, i) \in Digits

\* -------------------------------------------------------- password hashing

\* passlib's bcrypt handler, pwd_context = CryptContext(schemes=["bcrypt"]).
\* A hash is the ident "$2b$", a salt of SaltLen characters and the digest of
\* (salt, password); the digest is modelled as collision free and of
\* DigestLen characters (the passwords of the model have PasswordLen
\* characters).
SaltLen == 2
PasswordLen == 3
DigestLen == SaltLen + PasswordLen + 2
BcryptIdent == "$2b$"
Salts == {"s1", "s2"}

Digest(salt, password) == "<" \o salt \o password \o ">"

\* pwd_context.hash(password) with the salt the library drew.
pwd_context_hash(password, salt) == BcryptIdent \o salt \o Digest(salt, password)

\* pwd_context.verify(secret, hash): identifies the scheme by the ident,
\* parses the hash (ValueError on a string that is no well-formed hash) and
\* compares the digest of the secret under the stored salt.
pwd_context_verify(secret, hash) ==
    IF ~ (/\ startswith(hash, BcryptIdent)
          /\ Len(hash) = Len(BcryptIdent) + SaltLen + DigestLen)
    THEN [raised |-> TRUE, value |-> FALSE]
    ELSE LET salt == SubSeq(hash, Len(BcryptIdent) + 1, Len(BcryptIdent) + SaltLen)
         IN [raised |-> FALSE, value |-> (hash = pwd_context_hash(secret, salt))]

\* verify_password, had it tested for the older ident "$2a$".
verify_password_2a(plain_password, hashed_password) ==
    IF startswith(hashed_password, "$2a$")
    THEN pwd_context_verify(plain_password, hashed_password)
    ELSE [raised |-> FALSE, value |-> (plain_password = hashed_password)]

verify_password(plain_password, hashed_password) ==
    IF startswith(hashed_password, "$2b$")
    THEN pwd_context_verify(plain_password, hashed_password)
    ELSE [raised |-> FALSE, value |-> (plain_password = hashed_password)]

get_password_hash(password, salt) == pwd_context_hash(password, salt)

\* ------------------------------------------------------------------ tokens

\* A bearer credential is absent (no Authorization header), or a string that
\* is no JWT, or a JWT: a payload {sub, exp} and an HS256 signature, the MAC
\* of a payload under a key.
HS256(key, sub, exp) == <<key, sub, exp>>

NoCredentials == [kind |-> "absent", sub |-> None, exp |-> 0, sig |-> HS256("", None, 0)]
Garbage == [kind |-> "garbage", sub |-> None, exp |-> 0, sig |-> HS256("", None, 0)]

\* jwt.encode(payload, key, algorithm=ALGORITHM)
jwt_encode(sub, exp, key) ==
    [kind |-> "jwt", sub |-> sub, exp |-> exp, sig |-> HS256(key, sub, exp)]

\* timegm(expire.utctimetuple()): a datetime claim is encoded in whole
\* seconds, the fraction dropped.
NumericDate(t) == t \div TicksPerSecond

\* create_access_token, had it added the minutes as seconds.
create_access_token_seconds(sub, t) ==
    LET expire == t + ACCESS_TOKEN_EXPIRE_MINUTES * TicksPerSecond
    IN jwt_encode(sub, NumericDate(expire), SECRET_KEY)

create_access_token(sub, t) ==
    LET expire == t + ExpireTicks
    IN jwt_encode(sub, NumericDate(expire), SECRET_KEY)

\* The exceptions the jwt module (PyJWT) defines that decode can raise here.
JwtExceptions == {"DecodeError", "InvalidSignatureError", "ExpiredSignatureError"}

\* jwt.decode(token, SECRET_KEY, algorithms=[ALGORITHM]) at time t.
jwt_decode(token, key, t) ==
    IF token.kind # "jwt"
    THEN [exc |-> "DecodeError", sub |-> None]
    ELSE IF token.sig # HS256(key, token.sub, token.exp)
    THEN [exc |-> "InvalidSignatureError", sub |-> None]
    ELSE IF token.exp * TicksPerSecond <= t
    THEN [exc |-> "ExpiredSignatureError", sub |-> None]
    ELSE [exc |-> None, sub |-> token.sub]

\* HTTPBearer(): 403 when the request carries no bearer credentials.
security(credentials) ==
    IF credentials.kind = "absent" THEN HTTP_403_FORBIDDEN ELSE HTTP_200_OK

\* The except clauses of get_current_user, in order.  The second names
\* jwt.JWTError, which the jwt module does not define: reaching that clause
\* raises AttributeError, which no clause catches, and the framework answers
\* 500.  The HTTPException raised inside the try for a missing sub reaches
\* the clauses too.
ExceptClauses(exc) ==
    IF exc = "ExpiredSignatureError" THEN HTTP_401_UNAUTHORIZED
    ELSE IF "JWTError" \in JwtExceptions THEN HTTP_401_UNAUTHORIZED
    ELSE HTTP_500_INTERNAL_SERVER_ERROR

get_current_user(credentials, t) ==
    IF security(credentials) # HTTP_200_OK
    THEN [status |-> security(credentials), username |-> None]
    ELSE LET payload == jwt_decode(credentials, SECRET_KEY, t)
         IN IF payload.exc # None
            THEN [status |-> ExceptClauses(payload.exc), username |-> None]
            ELSE IF payload.sub = None
            THEN [status |-> ExceptClauses("HTTPException"), username |-> None]
            ELSE [status |-> HTTP_200_OK, username |-> payload.sub]

\* ------------------------------------------------- request bodies (JSON)

\* A JSON value: its type, its text (a string's characters, a number's
\* literal) and, for an array of strings, its items.
JStr(s) == [t |-> "str", s |-> s, items |-> <<>>]
JInt(s) == [t |-> "int", s |-> s, items |-> <<>>]
JFloat(s) == [t |-> "float", s |-> s, items |-> <<>>]
JList(items) == [t |-> "list", s |-> "", items |-> items]

\* A decimal literal: digits, or digits "." digits.
IsDecimal(s) ==
    \/ IsDigits(s)
    \/ \E i \in 2 .. (Len(s) - 1) :
          /\ SubSeq(s, i, i) = "."
          /\ IsDigits(SubSeq(s, 1, i - 1))
          /\ IsDigits(SubSeq(s, i + 1, Len(s)))

DigitValue(d) ==
    CASE d = "0" -> 0 [] d = "1" -> 1 [] d = "2" -> 2 [] d = "3" -> 3 [] d = "4" -> 4
      [] d = "5" -> 5 [] d = "6" -> 6 [] d = "7" -> 7 [] d = "8" -> 8 [] d = "9" -> 9

RECURSIVE ParseInt(_)
ParseInt(s) ==
    IF Len(s) = 0 THEN 0
    ELSE 10 * ParseInt(SubSeq(s, 1, Len(s) - 1)) + DigitValue(SubSeq(s, Len(s), Len(s)))

\* The pydantic models: each field with its declared type.
UserLogin == [login |-> "str", password |-> "str"]

Inform2Submission ==
    [date |-> "str", beach_name |-> "str", hour |-> "int", minute |-> "int",
     person_name |-> "str", age |-> "int", postal_code |-> "str",
     incidences |-> "List[str]", observations |-> "str"]

Inform4Submission ==
    [date |-> "str", beach_name |-> "str", hour |-> "int", minute |-> "int",
     wind_speed |-> "float", temperature |-> "float", wave_height |-> "float"]

\* pydantic's conversion of a JSON value to a declared type: a numeric string
\* is accepted for a number, an integer for a float.
Coercible(v, type) ==
    CASE type = "str" -> v.t = "str"
      [] type = "int" -> v.t = "int" \/ (v.t = "str" /\ IsDigits(v.s))
      [] type = "float" -> v.t \in {"int", "float"} \/ (v.t = "str" /\ IsDecimal(v.s))
      [] type = "List[str]" -> v.t = "list"

\* A validation that would let a missing field pass.
Validates_present_only(body, model) ==
    \A f \in DOMAIN model \cap DOMAIN body : Coercible(body[f], model[f])

\* BaseModel validation: every declared field present and convertible; fields
\* the model does not declare are ignored.
Validates(body, model) ==
    \A f \in DOMAIN model : f \in DOMAIN body /\ Coercible(body[f], model[f])

\* The validated model instance: float fields keep the literal, with ".0"
\* after an integer literal.
Convert(v, type) ==
    CASE type = "str" -> v.s
      [] type = "int" -> ParseInt(v.s)
      [] type = "float" -> IF IsDigits(v.s) THEN v.s \o ".0" ELSE v.s
      [] type = "List[str]" -> v.items

Parse(body, model) == [f \in DOMAIN model |-> Convert(body[f], model[f])]

\* json.dumps of a list of strings.
RECURSIVE JoinQuoted(_)
JoinQuoted(items) ==
    IF Len(items) = 0 THEN ""
    ELSE IF Len(items) = 1 THEN "\"" \o items[1] \o "\""
    ELSE "\"" \o items[1] \o "\", " \o JoinQuoted(Tail(items))

json_dumps(items) == "[" \o JoinQuoted(items) \o "]"

\* The bodies the clients of the model send.
WithField(body, f, v) == [g \in DOMAIN body \cup {f} |-> IF g = f THEN v ELSE body[g]]
WithoutField(body, f) == [g \in DOMAIN body \ {f} |-> body[g]]

NoBody == [none |-> JStr("")]

Inform2Body ==
    [date |-> JStr("2024-07-01"), beach_name |-> JStr("Venice Beach"),
     hour |-> JInt("12"), minute |-> JInt("30"), person_name |-> JStr("Ana"),
     age |-> JInt("34"), postal_code |-> JStr("90291"),
     incidences |-> JList(<<"cut", "sting">>), observations |-> JStr("none")]

Inform4Body ==
    [date |-> JStr("2024-07-01"), beach_name |-> JStr("Venice Beach"),
     hour |-> JInt("12"), minute |-> JInt("30"), wind_speed |-> JFloat("12.5"),
     temperature |-> JInt("24"), wave_height |-> JFloat("0.8")]

\* ------------------------------------------------------------ SQL queries

\* The collation of the tables (utf8mb4_unicode_ci) compares letters without
\* regard to case.
Lower == <<" ", "a", "b", "c", "d", "e", "f", "g", "h", "i", "j", "k", "l", "m", "n",
           "o", "p", "q", "r", "s", "t", "u", "v", "w", "x", "y", "z">>
Upper == <<" ", "A", "B", "C", "D", "E", "F", "G", "H", "I", "J", "K", "L", "M", "N",
           "O", "P", "Q", "R", "S", "T", "U", "V", "W", "X", "Y", "Z">>

CharRank(c) ==
    IF \E i \in 1 .. Len(Lower) : c = Lower[i] \/ c = Upper[i]
    THEN CHOOSE i \in 1 .. Len(Lower) : c = Lower[i] \/ c = Upper[i]
    ELSE 0

\* Whether a sorts before b, reading both from character i on.
RECURSIVE CollateLessFrom(_, _, _)
CollateLessFrom(a, b, i) ==
    IF i > Len(b) THEN FALSE
    ELSE IF i > Len(a) THEN TRUE
    ELSE LET ca == SubSeq(a, i, i)
             cb == SubSeq(b, i, i)
         IN IF ca = cb \/ CharRank(ca) = CharRank(cb)
            THEN CollateLessFrom(a, b, i + 1)
            ELSE CharRank(ca) < CharRank(cb)

CollateLess(a, b) == CollateLessFrom(a, b, 1)

\* ORDER BY name: every listing of the rows in which no row precedes a row of
\* a smaller name (rows of equal names come in either order).
RECURSIVE OrderByName(_)
OrderByName(rows) ==
    IF rows = {} THEN {<<>>}
    ELSE UNION {{<<r>> \o rest : rest \in OrderByName(rows \ {r})} :
                r \in {x \in rows : \A y \in rows : ~ CollateLess(y.name, x.name)}}

\* ORDER BY id (ids are unique).
RECURSIVE OrderById(_)
OrderById(rows) ==
    IF rows = {} THEN <<>>
    ELSE LET r == CHOOSE x \in rows : \A y \in rows : x.id <= y.id
         IN <<r>> \o OrderById(rows \ {r})

\* SELECT * FROM usuarios WHERE login = %s, then fetchone().
SelectUser(table, login) ==
    IF \E u \in table : u.login = login
    THEN CHOOSE u \in table : u.login = login
    ELSE [login |-> None, password |-> None]

\* The SELECT, had it ordered the rows by id.
SelectBeaches_by_id(table) == {OrderById(table)}

\* SELECT id, name FROM beaches ORDER BY name
SelectBeaches(table) == OrderByName(table)

\* The SELECT without its WHERE clause.
SelectBeachPosts_all(table, beach_id) == OrderByName(table)

\* SELECT id, beach_id, name FROM beach_posts WHERE beach_id = %s ORDER BY name
SelectBeachPosts(table, beach_id) == OrderByName({row \in table : row.beach_id = beach_id})

\* -------------------------------------------------------- connection pool

\* aiomysql.create_pool(minsize=1, maxsize=10): minsize free connections.
create_pool == [state |-> "open", free |-> minsize, used |-> 0]

NoPool == [state |-> "none", free |-> 0, used |-> 0]

\* Pool.acquire returns at once when a connection is free or the pool may
\* grow, and waits otherwise.
CanAcquire(pool) ==
    /\ pool.state = "open"
    /\ pool.free > 0 \/ pool.free + pool.used < maxsize

\* db_pool.acquire()
get_db_connection(pool) ==
    IF pool.free > 0
    THEN [pool EXCEPT !.free = @ - 1, !.used = @ + 1]
    ELSE [pool EXCEPT !.used = @ + 1]

\* The body of the coroutine release_db_connection: db_pool.release(conn).
release_db_connection(pool) == [pool EXCEPT !.free = @ + 1, !.used = @ - 1]

\* The statement `release_db_connection(conn)` of the finally blocks: the call
\* builds the coroutine and nothing awaits it, so its body never runs.
finally_release(pool) == pool

\* ------------------------------------------------------------------- state

VARIABLES
    now,                  \* the clock, in ticks
    usuarios,             \* table usuarios: rows {login, password}
    beaches,              \* table beaches, committed rows {id, name}
    beach_posts,          \* table beach_posts, committed rows {id, beach_id, name}
    inform2_submissions,  \* table inform2_submissions, committed rows
    inform4_submissions,  \* table inform4_submissions, committed rows
    auto_increment,       \* the AUTO_INCREMENT counter of each table
    db_pool,              \* per server process: the global db_pool
    boot,                 \* per server process: where startup_db stands
    req,                  \* the requests in flight
    last,                 \* the latest response sent
    issued,               \* the tokens the clients were issued: {token, login, at}
    nRequests,            \* requests received so far
    nStartups,            \* startups begun so far
    overlap               \* whether two startups ever ran at the same time

tables == <<usuarios, beaches, beach_posts, inform2_submissions, inform4_submissions,
            auto_increment>>

vars == <<now, usuarios, beaches, beach_posts, inform2_submissions,
          inform4_submissions, auto_increment, db_pool, boot, req, last, issued,
          nRequests, nStartups, overlap>>

Procs == 1 .. NumProcs
Reqs == 1 .. MaxInFlight

\* The routes of api_router; those whose handler declares
\* Depends(get_current_user); those whose handler declares a body model.
Routes == {"login", "beaches", "beach_posts", "inform2", "inform4"}
ProtectedWithoutInform4 == {"beaches", "beach_posts", "inform2"}
Protected == {"beaches", "beach_posts", "inform2", "inform4"}
BodyModel(route) ==
    CASE route = "login" -> UserLogin
      [] route = "inform2" -> Inform2Submission
      [] route = "inform4" -> Inform4Submission
      [] OTHER -> [none |-> "str"]

Idle ==
    [pc |-> "idle", route |-> "", proc |-> 0, cred |-> NoCredentials, beach_id |-> 0,
     body |-> NoBody, username |-> None, t |-> 0, lastrowid |-> 0, tx |-> {}]

NoResponse ==
    [n |-> 0, route |-> "", proc |-> 0, cred |-> NoCredentials, beach_id |-> 0,
     body |-> NoBody, username |-> None, t |-> 0, status |-> 0, detail |-> "",
     token |-> NoCredentials, rows |-> <<>>, id |-> 0, acquired |-> FALSE,
     fault |-> FALSE]

\* The response to request rq.
Response(rq, status, detail) ==
    [NoResponse EXCEPT !.n = last.n + 1, !.route = rq.route, !.proc = rq.proc,
                       !.cred = rq.cred, !.beach_id = rq.beach_id, !.body = rq.body,
                       !.username = rq.username, !.t = rq.t, !.status = status,
                       !.detail = detail, !.acquired = (rq.pc \notin {"idle", "acquire"})]

\* The accounts provisioned out of band: a legacy plaintext password, a bcrypt
\* hash, and a legacy plaintext password that happens to begin with "$2b$".
Provisioned ==
    {[login |-> "alice", password |-> "pw1"],
     [login |-> "bob", password |-> pwd_context_hash("pw2", "s1")],
     [login |-> "carol", password |-> "$2b$old"]}

Init ==
    /\ now = 0
    /\ usuarios = Provisioned
    /\ beaches = {}
    /\ beach_posts = {}
    /\ inform2_submissions = {}
    /\ inform4_submissions = {}
    /\ auto_increment = [beaches |-> 1, beach_posts |-> 1, inform2_submissions |-> 1,
                         inform4_submissions |-> 1]
    /\ db_pool = [p \in Procs |-> NoPool]
    /\ boot = [p \in Procs |-> [pc |-> "down", count |-> 0, snapshot |-> {},
                                tx_beaches |-> {}, tx_posts |-> {}]]
    /\ req = [r \in Reqs |-> Idle]
    /\ last = NoResponse
    /\ issued = {}
    /\ nRequests = 0
    /\ nStartups = 0
    /\ overlap = FALSE

\* ----------------------------------------------------------------- startup

SampleBeaches == <<"Santa Monica Beach", "Venice Beach", "Malibu Beach">>
SamplePosts == <<"Post A", "Post B", "Post C">>

InStartup(p) == boot[p].pc \notin {"down", "up"}

\* startup_db up to the commit of the CREATE TABLE IF NOT EXISTS statements:
\* the pool is created and one connection acquired.
startup_db_create(p) ==
    /\ boot[p].pc = "down"
    /\ nStartups < MaxStartups
    /\ nStartups' = nStartups + 1
    /\ db_pool' = [db_pool EXCEPT ![p] = get_db_connection(create_pool)]
    /\ boot' = [boot EXCEPT ![p].pc = "tables"]
    /\ overlap' = (overlap \/ \E q \in Procs \ {p} : InStartup(q))
    /\ UNCHANGED <<now, tables, req, last, issued, nRequests>>

\* A startup that would insert the sample rows whatever the count.
startup_db_count_unchecked(p) ==
    /\ boot[p].pc = "tables"
    /\ boot' = [boot EXCEPT ![p].count = Cardinality(beaches),
                            ![p].snapshot = beaches,
                            ![p].pc = "insert"]
    /\ UNCHANGED <<now, tables, db_pool, req, last, issued, nRequests, nStartups,
                   overlap>>

\* SELECT COUNT(*) FROM beaches: the read that opens the transaction.  With
\* a count other than 0 startup_db ends here, through its finally block.
startup_db_count(p) ==
    /\ boot[p].pc = "tables"
    /\ LET count == Cardinality(beaches)
       IN /\ boot' = [boot EXCEPT ![p].count = count,
                                  ![p].snapshot = beaches,
                                  ![p].pc = IF count = 0 THEN "insert" ELSE "up"]
          /\ db_pool' = [db_pool EXCEPT
                           ![p] = IF count = 0 THEN @ ELSE finally_release(@)]
    /\ UNCHANGED <<now, tables, req, last, issued, nRequests, nStartups, overlap>>

\* INSERT INTO beaches, SELECT id FROM beaches ORDER BY id and the INSERT
\* INTO beach_posts of each id read, all in the open transaction: the SELECT
\* sees the transaction's snapshot and its own rows.
startup_db_insert(p) ==
    /\ boot[p].pc = "insert"
    /\ LET b0 == auto_increment.beaches
           new_beaches == {[id |-> b0 + i - 1, name |-> SampleBeaches[i]] :
                             i \in 1 .. Len(SampleBeaches)}
           beach_ids == OrderById(boot[p].snapshot \cup new_beaches)
           p0 == auto_increment.beach_posts
           new_posts == {[id |-> p0 + (k - 1) * Len(SamplePosts) + j - 1,
                          beach_id |-> beach_ids[k].id, name |-> SamplePosts[j]] :
                           k \in 1 .. Len(beach_ids), j \in 1 .. Len(SamplePosts)}
       IN /\ boot' = [boot EXCEPT ![p].tx_beaches = new_beaches,
                                  ![p].tx_posts = new_posts,
                                  ![p].pc = "commit"]
          /\ auto_increment' =
               [auto_increment EXCEPT !.beaches = @ + Cardinality(new_beaches),
                                      !.beach_posts = @ + Cardinality(new_posts)]
    /\ UNCHANGED <<now, usuarios, beaches, beach_posts, inform2_submissions,
                   inform4_submissions, db_pool, req, last, issued, nRequests,
                   nStartups, overlap>>

\* A commit that would give way to rows committed since the count was read.
startup_db_commit_if_empty(p) ==
    /\ boot[p].pc = "commit"
    /\ beaches' = IF beaches = {} THEN boot[p].tx_beaches ELSE beaches
    /\ beach_posts' = IF beaches = {} THEN boot[p].tx_posts ELSE beach_posts
    /\ boot' = [boot EXCEPT ![p].tx_beaches = {}, ![p].tx_posts = {}, ![p].pc = "up"]
    /\ db_pool' = [db_pool EXCEPT ![p] = finally_release(@)]
    /\ UNCHANGED <<now, usuarios, inform2_submissions, inform4_submissions,
                   auto_increment, req, last, issued, nRequests, nStartups, overlap>>

\* conn.commit(), then the finally block.
startup_db_commit(p) ==
    /\ boot[p].pc = "commit"
    /\ beaches' = beaches \cup boot[p].tx_beaches
    /\ beach_posts' = beach_posts \cup boot[p].tx_posts
    /\ boot' = [boot EXCEPT ![p].tx_beaches = {}, ![p].tx_posts = {}, ![p].pc = "up"]
    /\ db_pool' = [db_pool EXCEPT ![p] = finally_release(@)]
    /\ UNCHANGED <<now, usuarios, inform2_submissions, inform4_submissions,
                   auto_increment, req, last, issued, nRequests, nStartups, overlap>>

startup_db(p) ==
    \/ startup_db_create(p)
    \/ startup_db_count(p)
    \/ startup_db_insert(p)
    \/ startup_db_commit(p)

\* The server process is stopped from outside (its pool and its connections
\* go with it) and may be started again.
Kill(p) ==
    /\ boot[p].pc \in {"up", "wait_closed"}
    /\ \A r \in Reqs : req[r].pc = "idle" \/ req[r].proc # p
    /\ boot' = [boot EXCEPT ![p].pc = "down", ![p].count = 0, ![p].snapshot = {}]
    /\ db_pool' = [db_pool EXCEPT ![p] = NoPool]
    /\ UNCHANGED <<now, tables, req, last, issued, nRequests, nStartups, overlap>>

\* shutdown_db, run once the requests of the process are answered:
\* db_pool.close() marks the pool as closing; wait_closed() closes the free
\* connections and then waits until no connection is in use.  It is
\* Pool.release that wakes the waiter, and release_db_connection never
\* calls it: a shutdown that finds a connection in use waits from then on.
closed(pool) ==
    IF pool.used = 0
    THEN [pool EXCEPT !.state = "closed", !.free = 0]
    ELSE [pool EXCEPT !.state = "closing", !.free = 0]

shutdown_db(p) ==
    /\ boot[p].pc = "up"
    /\ \A r \in Reqs : req[r].pc = "idle" \/ req[r].proc # p
    /\ db_pool[p].state = "open"
    /\ db_pool' = [db_pool EXCEPT ![p] = closed(@)]
    /\ boot' = [boot EXCEPT ![p].pc = IF db_pool'[p].state = "closed"
                                     THEN "down" ELSE "wait_closed",
                            ![p].count = 0, ![p].snapshot = {}]
    /\ UNCHANGED <<now, tables, req, last, issued, nRequests, nStartups, overlap>>

\* ---------------------------------------------------------------- requests

\* The framework's part of a request to process p: the dependencies of the
\* route are solved first (HTTPBearer, then get_current_user), then the body
\* is validated against the route's model; only then is the handler called.
Receive(r, p, route, cred, beach_id, body) ==
    /\ req[r].pc = "idle"
    /\ boot[p].pc = "up"
    /\ nRequests' = nRequests + 1
    /\ LET auth == IF route \in Protected
                   THEN get_current_user(cred, now)
                   ELSE [status |-> HTTP_200_OK, username |-> None]
           rq == [Idle EXCEPT !.route = route, !.proc = p, !.cred = cred,
                              !.beach_id = beach_id, !.body = body,
                              !.username = auth.username, !.t = now]
       IN IF auth.status # HTTP_200_OK
          THEN /\ last' = Response(rq, auth.status, "auth")
               /\ UNCHANGED req
          ELSE IF ~ Validates(body, BodyModel(route))
          THEN /\ last' = Response(rq, HTTP_422_UNPROCESSABLE_ENTITY, "validation")
               /\ UNCHANGED req
          ELSE /\ req' = [req EXCEPT ![r] = [rq EXCEPT !.pc = "acquire"]]
               /\ UNCHANGED last
    /\ UNCHANGED <<now, tables, db_pool, boot, issued, nStartups, overlap>>

\* A request of the first MaxRequests the clients send.
Request(r, p, route, cred, beach_id, body) ==
    /\ nRequests < MaxRequests
    /\ Receive(r, p, route, cred, beach_id, body)

\* conn = await get_db_connection(), the first statement of every handler.
Acquire(r) ==
    /\ req[r].pc = "acquire"
    /\ CanAcquire(db_pool[req[r].proc])
    /\ db_pool' = [db_pool EXCEPT ![req[r].proc] = get_db_connection(@)]
    /\ req' = [req EXCEPT ![r].pc = "try"]
    /\ UNCHANGED <<now, tables, boot, last, issued, nRequests, nStartups, overlap>>

\* What the handler's try block of login comes to: 401, 200 with a token, or
\* an exception that leaves the handler (answered 500 by the framework).
LoginOutcome(user, table, t, fault) ==
    LET db_user == SelectUser(table, user.login)
        verified == verify_password(user.password, db_user.password)
    IN IF fault
       THEN [status |-> HTTP_500_INTERNAL_SERVER_ERROR, token |-> NoCredentials]
       ELSE IF db_user.login = None
       THEN [status |-> HTTP_401_UNAUTHORIZED, token |-> NoCredentials]
       ELSE IF verified.raised
       THEN [status |-> HTTP_500_INTERNAL_SERVER_ERROR, token |-> NoCredentials]
       ELSE IF ~ verified.value
       THEN [status |-> HTTP_401_UNAUTHORIZED, token |-> NoCredentials]
       ELSE [status |-> HTTP_200_OK, token |-> create_access_token(user.login, t)]

\* The finally block of a handler of request r, and the request's end.
Finally(r) ==
    /\ db_pool' = [db_pool EXCEPT ![req[r].proc] = finally_release(@)]
    /\ req' = [req EXCEPT ![r] = Idle]

login(r) ==
    /\ req[r].pc = "try"
    /\ req[r].route = "login"
    /\ \E fault \in BOOLEAN :
         LET user == Parse(req[r].body, UserLogin)
             out == LoginOutcome(user, usuarios, now, fault)
         IN /\ last' = [Response(req[r], out.status, "login") EXCEPT
                          !.token = out.token, !.fault = fault]
            /\ issued' = IF out.status = HTTP_200_OK
                         THEN issued \cup {[token |-> out.token, login |-> user.login,
                                            at |-> now]}
                         ELSE issued
    /\ Finally(r)
    /\ UNCHANGED <<now, tables, boot, nRequests, nStartups, overlap>>

get_beaches(r) ==
    /\ req[r].pc = "try"
    /\ req[r].route = "beaches"
    /\ \E fault \in BOOLEAN :
         IF fault
         THEN last' = [Response(req[r], HTTP_500_INTERNAL_SERVER_ERROR,
                                "Internal Server Error") EXCEPT !.fault = TRUE]
         ELSE \E rows \in SelectBeaches(beaches) :
                last' = [Response(req[r], HTTP_200_OK, "") EXCEPT !.rows = rows]
    /\ Finally(r)
    /\ UNCHANGED <<now, tables, boot, issued, nRequests, nStartups, overlap>>

get_beach_posts(r) ==
    /\ req[r].pc = "try"
    /\ req[r].route = "beach_posts"
    /\ \E fault \in BOOLEAN :
         IF fault
         THEN last' = [Response(req[r], HTTP_500_INTERNAL_SERVER_ERROR,
                                "Error fetching beach posts") EXCEPT !.fault = TRUE]
         ELSE \E rows \in SelectBeachPosts(beach_posts, req[r].beach_id) :
                last' = [Response(req[r], HTTP_200_OK, "") EXCEPT !.rows = rows]
    /\ Finally(r)
    /\ UNCHANGED <<now, tables, boot, issued, nRequests, nStartups, overlap>>

\* The row, had the INSERT bound person_name in the place of current_user.
Inform2Row_person_name(id, data, current_user, t) ==
    [id |-> id, date |-> data.date, beach_name |-> data.beach_name, hour |-> data.hour,
     minute |-> data.minute, person_name |-> data.person_name, age |-> data.age,
     postal_code |-> data.postal_code, incidences |-> json_dumps(data.incidences),
     observations |-> data.observations, username |-> data.person_name,
     created_at |-> t]

\* The row submit_inform2 inserts.
Inform2Row(id, data, current_user, t) ==
    [id |-> id, date |-> data.date, beach_name |-> data.beach_name, hour |-> data.hour,
     minute |-> data.minute, person_name |-> data.person_name, age |-> data.age,
     postal_code |-> data.postal_code, incidences |-> json_dumps(data.incidences),
     observations |-> data.observations, username |-> current_user, created_at |-> t]

\* The row submit_inform4 inserts.
Inform4Row(id, data, current_user, t) ==
    [id |-> id, date |-> data.date, beach_name |-> data.beach_name, hour |-> data.hour,
     minute |-> data.minute, wind_speed |-> data.wind_speed,
     temperature |-> data.temperature, wave_height |-> data.wave_height,
     username |-> current_user, created_at |-> t]

\* cursor.execute(INSERT ...) of a submit handler: the row joins the open
\* transaction; on a fault the except block rolls back and raises 500.
SubmitExecute(r, table, row, detail) ==
    \E fault \in BOOLEAN :
      IF fault
      THEN /\ last' = [Response(req[r], HTTP_500_INTERNAL_SERVER_ERROR, detail)
                         EXCEPT !.fault = TRUE]
           /\ Finally(r)
           /\ UNCHANGED auto_increment
      ELSE /\ auto_increment' = [auto_increment EXCEPT ![table] = @ + 1]
           /\ req' = [req EXCEPT ![r].pc = "commit", ![r].tx = {row},
                                 ![r].lastrowid = row.id]
           /\ UNCHANGED <<last, db_pool>>

submit_inform2_execute(r) ==
    /\ req[r].pc = "try"
    /\ req[r].route = "inform2"
    /\ SubmitExecute(r, "inform2_submissions",
                     Inform2Row(auto_increment.inform2_submissions,
                                Parse(req[r].body, Inform2Submission),
                                req[r].username, now),
                     "Error submitting Inform 2")
    /\ UNCHANGED <<now, usuarios, beaches, beach_posts, inform2_submissions,
                   inform4_submissions, boot, issued, nRequests, nStartups, overlap>>

submit_inform4_execute(r) ==
    /\ req[r].pc = "try"
    /\ req[r].route = "inform4"
    /\ SubmitExecute(r, "inform4_submissions",
                     Inform4Row(auto_increment.inform4_submissions,
                                Parse(req[r].body, Inform4Submission),
                                req[r].username, now),
                     "Error submitting Inform 4")
    /\ UNCHANGED <<now, usuarios, beaches, beach_posts, inform2_submissions,
                   inform4_submissions, boot, issued, nRequests, nStartups, overlap>>

\* conn.commit() of a submit handler and its return; on a fault the except
\* block rolls the transaction back and raises 500.
CommitResponse(rq, detail, fault) ==
    IF fault
    THEN [Response(rq, HTTP_500_INTERNAL_SERVER_ERROR, detail) EXCEPT !.fault = TRUE]
    ELSE [Response(rq, HTTP_200_OK, "submitted successfully") EXCEPT !.id = rq.lastrowid]

\* The commit, had a fault left the row in the table.
submit_inform2_commit_no_rollback(r) ==
    /\ req[r].pc = "commit"
    /\ req[r].route = "inform2"
    /\ \E fault \in BOOLEAN :
         /\ last' = CommitResponse(req[r], "Error submitting Inform 2", fault)
         /\ inform2_submissions' = inform2_submissions \cup req[r].tx
    /\ Finally(r)
    /\ UNCHANGED <<now, usuarios, beaches, beach_posts, inform4_submissions,
                   auto_increment, boot, issued, nRequests, nStartups, overlap>>

submit_inform2_commit(r) ==
    /\ req[r].pc = "commit"
    /\ req[r].route = "inform2"
    /\ \E fault \in BOOLEAN :
         /\ last' = CommitResponse(req[r], "Error submitting Inform 2", fault)
         /\ inform2_submissions' =
              IF fault THEN inform2_submissions ELSE inform2_submissions \cup req[r].tx
    /\ Finally(r)
    /\ UNCHANGED <<now, usuarios, beaches, beach_posts, inform4_submissions,
                   auto_increment, boot, issued, nRequests, nStartups, overlap>>

\* The commit, had it put the row in the place of the table's rows.
submit_inform4_commit_replace(r) ==
    /\ req[r].pc = "commit"
    /\ req[r].route = "inform4"
    /\ \E fault \in BOOLEAN :
         /\ last' = CommitResponse(req[r], "Error submitting Inform 4", fault)
         /\ inform4_submissions' = IF fault THEN inform4_submissions ELSE req[r].tx
    /\ Finally(r)
    /\ UNCHANGED <<now, usuarios, beaches, beach_posts, inform2_submissions,
                   auto_increment, boot, issued, nRequests, nStartups, overlap>>

submit_inform4_commit(r) ==
    /\ req[r].pc = "commit"
    /\ req[r].route = "inform4"
    /\ \E fault \in BOOLEAN :
         /\ last' = CommitResponse(req[r], "Error submitting Inform 4", fault)
         /\ inform4_submissions' =
              IF fault THEN inform4_submissions ELSE inform4_submissions \cup req[r].tx
    /\ Finally(r)
    /\ UNCHANGED <<now, usuarios, beaches, beach_posts, inform2_submissions,
                   auto_increment, boot, issued, nRequests, nStartups, overlap>>

\* The clock moves on to a later instant.
Advance ==
    /\ \E t \in Instants : t > now /\ now' = t
    /\ UNCHANGED <<tables, db_pool, boot, req, last, issued, nRequests, nStartups,
                   overlap>>

\* The handlers' steps of the requests in flight.
Handlers ==
    \E r \in Reqs :
      \/ Acquire(r)
      \/ login(r)
      \/ get_beaches(r)
      \/ get_beach_posts(r)
      \/ submit_inform2_execute(r)
      \/ submit_inform2_commit(r)
      \/ submit_inform4_execute(r)
      \/ submit_inform4_commit(r)

\* ------------------------------------------------- the API under its clients

Server == 1

Input(route, cred, beach_id, body) ==
    [route |-> route, cred |-> cred, beach_id |-> beach_id, body |-> body]

LoginBody(name, password) == [login |-> JStr(name), password |-> JStr(password)]

\* Credentials a client may present: tokens signed with SECRET_KEY for a
\* login and an expiry instant (issued by this service, now or in an earlier
\* run), and credentials it never issued.
ValidToken(sub) == create_access_token(sub, 0)
Expired == jwt_encode("alice", NumericDate(0), SECRET_KEY)
BadSignature == jwt_encode("alice", NumericDate(ExpireTicks), "another-key")
Tampered == [ValidToken("alice") EXCEPT !.sub = "bob"]
NoSub == jwt_encode(None, NumericDate(ExpireTicks), SECRET_KEY)
InvalidTokens == {Garbage, Expired, BadSignature, Tampered, NoSub}

Inform2Bodies ==
    {Inform2Body,
     WithField(Inform2Body, "username", JStr("mallory")),
     WithField(Inform2Body, "hour", JStr("12")),
     WithField(Inform2Body, "hour", JStr("noon")),
     WithoutField(Inform2Body, "age")}

Inform4Bodies ==
    {Inform4Body,
     WithField(Inform4Body, "username", JStr("mallory")),
     WithField(Inform4Body, "wind_speed", JList(<<"gale">>)),
     WithoutField(Inform4Body, "date")}

BeachIds == 1 .. (Len(SampleBeaches) + 1)

\* The requests of the clients of the API (the clock stands at 0): every
\* route with credentials that pass, a login that fails and a request the
\* gateway turns away.
ApiInputs ==
    {Input("login", NoCredentials, 0, LoginBody(l, "pw1")) : l \in {"alice", "bob"}}
    \cup {Input("beaches", c, 0, NoBody) : c \in {ValidToken("alice"), NoCredentials}}
    \cup {Input("beach_posts", ValidToken("alice"), b, NoBody) : b \in BeachIds}
    \cup {Input("inform2", ValidToken(sub), 0, b) :
            sub \in {"alice", "bob"},
            b \in {Inform2Body, WithField(Inform2Body, "username", JStr("alice"))}}
    \cup {Input("inform4", ValidToken(sub), 0, b) :
            sub \in {"alice", "bob"},
            b \in {Inform4Body, WithField(Inform4Body, "username", JStr("alice"))}}

ApiRequest ==
    \E r \in Reqs : \E in \in ApiInputs :
      Request(r, Server, in.route, in.cred, in.beach_id, in.body)

Next ==
    \/ startup_db(Server)
    \/ ApiRequest
    \/ Handlers

Spec == Init /\ [][Next]_vars

\* ------------------------------------------ the gateway under bad requests

\* Every protected route under every kind of credential and body.
GatewayInputs ==
    LET creds == InvalidTokens \cup {NoCredentials, ValidToken("alice")}
    IN {Input(route, c, 1, NoBody) : route \in {"beaches", "beach_posts"}, c \in creds}
       \cup {Input("inform2", c, 0, b) : c \in creds, b \in Inform2Bodies}
       \cup {Input("inform4", c, 0, b) : c \in creds, b \in Inform4Bodies}

GatewayRequest ==
    \E r \in Reqs : \E in \in GatewayInputs :
      Request(r, Server, in.route, in.cred, in.beach_id, in.body)

GatewayHandlers ==
    \E r \in Reqs :
      \/ Acquire(r)
      \/ get_beaches(r)
      \/ get_beach_posts(r)
      \/ submit_inform2_execute(r)
      \/ submit_inform2_commit(r)
      \/ submit_inform4_execute(r)
      \/ submit_inform4_commit(r)

NextGateway ==
    \/ startup_db(Server)
    \/ GatewayRequest
    \/ GatewayHandlers

SpecGateway == Init /\ [][NextGateway]_vars

\* ------------------------------------------------ tokens over their lifetime

\* What a client without the key can make of a token: the payload changed
\* under the old signature, or the token signed again with a key of its own.
Forgeries(token) ==
    {[token EXCEPT !.sub = IF @ = "alice" THEN "bob" ELSE "alice"],
     [token EXCEPT !.exp = @ + ExpireSeconds],
     jwt_encode(token.sub, token.exp, "another-key")}

\* A client logs in, or presents to GET /beaches a token a login returned or
\* a forgery of one.
AuthInputs ==
    {Input("login", NoCredentials, 0, LoginBody("alice", "pw1")),
     Input("login", NoCredentials, 0, LoginBody("bob", "pw2"))}
    \cup {Input("beaches", i.token, 0, NoBody) : i \in issued}
    \cup {Input("beaches", f, 0, NoBody) : f \in UNION {Forgeries(i.token) : i \in issued}}

AuthRequest ==
    \E r \in Reqs : \E in \in AuthInputs :
      Request(r, Server, in.route, in.cred, in.beach_id, in.body)

AuthHandlers ==
    \E r \in Reqs :
      \/ Acquire(r)
      \/ login(r)
      \/ get_beaches(r)

NextAuth ==
    \/ startup_db(Server)
    \/ Advance
    \/ AuthRequest
    \/ AuthHandlers

SpecAuth == Init /\ [][NextAuth]_vars

\* ----------------------------------------------------- logins of every kind

LoginInputs ==
    {Input("login", NoCredentials, 0, LoginBody(l, pw)) :
        l \in {"alice", "bob", "carol", "dave"}, pw \in {"pw1", "pw2"}}

LoginRequest ==
    \E r \in Reqs : \E in \in LoginInputs :
      Request(r, Server, in.route, in.cred, in.beach_id, in.body)

LoginHandlers ==
    \E r \in Reqs :
      \/ Acquire(r)
      \/ login(r)

NextLogin ==
    \/ startup_db(Server)
    \/ LoginRequest
    \/ LoginHandlers

SpecLogin == Init /\ [][NextLogin]_vars

\* ------------------------------------------------------------ registration

HTTP_400_BAD_REQUEST == 400

\* POST /auth/register of the document-store variant, which is not among the
\* source files: Conflict when the username is stored already, otherwise the
\* account is stored with the hash of the password.
register(username, password) ==
    /\ boot[Server].pc = "up"
    /\ nRequests < MaxRequests
    /\ nRequests' = nRequests + 1
    /\ LET rq == [Idle EXCEPT !.route = "register", !.proc = Server,
                              !.body = [username |-> JStr(username),
                                        password |-> JStr(password)],
                              !.t = now]
       IN IF \E u \in usuarios : u.login = username
          THEN /\ last' = Response(rq, HTTP_400_BAD_REQUEST, "Conflict")
               /\ UNCHANGED usuarios
          ELSE \E salt \in Salts :
                 /\ usuarios' = usuarios \cup
                      {[login |-> username,
                        password |-> get_password_hash(password, salt)]}
                 /\ last' = Response(rq, HTTP_200_OK, "registered")
    /\ UNCHANGED <<now, beaches, beach_posts, inform2_submissions,
                   inform4_submissions, auto_increment, db_pool, boot, req, issued,
                   nStartups, overlap>>

RegisterRequest ==
    \E username \in {"alice", "erin"}, password \in {"pw1", "pw2"} :
      register(username, password)

RegisterLoginRequest ==
    \E r \in Reqs : \E l \in {"alice", "erin"}, pw \in {"pw1", "pw2"} :
      Request(r, Server, "login", NoCredentials, 0, LoginBody(l, pw))

NextRegister ==
    \/ startup_db(Server)
    \/ RegisterRequest
    \/ RegisterLoginRequest
    \/ LoginHandlers

SpecRegister == Init /\ [][NextRegister]_vars

\* ------------------------------------------------- startups of the processes

\* The processes start, are stopped and start again, in any order and at the
\* same time; clients read the posts of a beach from a process that is up.
BootRequest ==
    \E r \in Reqs : \E p \in Procs, b \in BeachIds :
      Request(r, p, "beach_posts", ValidToken("alice"), b, NoBody)

BootHandlers ==
    \E r \in Reqs :
      \/ Acquire(r)
      \/ get_beach_posts(r)

NextBoot ==
    \/ \E p \in Procs : startup_db(p)
    \/ \E p \in Procs : Kill(p)
    \/ BootRequest
    \/ BootHandlers

SpecBoot == Init /\ [][NextBoot]_vars

\* --------------------------------------------- a process over its lifetime

\* The process starts, serves, shuts down or is stopped, and starts again
\* over the tables it left.
LifecycleInputs ==
    {Input("login", NoCredentials, 0, LoginBody("alice", "pw1")),
     Input("beaches", ValidToken("alice"), 0, NoBody),
     Input("inform2", ValidToken("alice"), 0, Inform2Body),
     Input("inform4", ValidToken("bob"), 0, Inform4Body)}

LifecycleRequest ==
    \E r \in Reqs : \E in \in LifecycleInputs :
      Request(r, Server, in.route, in.cred, in.beach_id, in.body)

LifecycleHandlers ==
    \E r \in Reqs :
      \/ Acquire(r)
      \/ login(r)
      \/ get_beaches(r)
      \/ submit_inform2_execute(r)
      \/ submit_inform2_commit(r)
      \/ submit_inform4_execute(r)
      \/ submit_inform4_commit(r)

NextLifecycle ==
    \/ startup_db(Server)
    \/ shutdown_db(Server)
    \/ Kill(Server)
    \/ LifecycleRequest
    \/ LifecycleHandlers

SpecLifecycle == Init /\ [][NextLifecycle]_vars

\* The event loop runs every coroutine that can go on; when the process is
\* told to stop, or stopped, is up to its environment.
FairSpecLifecycle ==
    /\ SpecLifecycle
    /\ WF_vars(startup_db(Server))
    /\ WF_vars(LifecycleHandlers)

\* ------------------------------------------- the pool under a run of requests

\* One process serves GET /beaches requests one after another, at most
\* MaxInFlight of them at a time, for as long as clients send them.
PoolRequest ==
    \E r \in Reqs : Receive(r, Server, "beaches", ValidToken("alice"), 0, NoBody)

PoolHandlers ==
    \E r \in Reqs :
      \/ Acquire(r)
      \/ get_beaches(r)

NextPool ==
    \/ startup_db(Server)
    \/ PoolRequest
    \/ PoolHandlers

SpecPool == Init /\ [][NextPool]_vars

\* The event loop runs every coroutine that can go on: an acquire that the
\* pool can serve returns, and a handler that holds its connection ends.
FairSpecPool ==
    /\ SpecPool
    /\ WF_vars(startup_db(Server))
    /\ \A r \in Reqs : WF_vars(Acquire(r)) /\ WF_vars(get_beaches(r))

\* ------------------------------------------------------------------ claims

NoRequestInFlight ==
    /\ \A r \in Reqs : req[r].pc = "idle"
    /\ \A p \in Procs : ~ InStartup(p)

\* C1: every handler and the startup hook return the connection they
\* acquired to the pool when they complete, so whenever no request (and no
\* startup) is in flight, no connection of any pool is checked out.
C1_ConnectionsReturned ==
    NoRequestInFlight => \A p \in Procs : db_pool[p].used = 0

ProtectedRoutes == {"beaches", "beach_posts", "inform2", "inform4"}

\* C2: on every protected endpoint, a request whose bearer token is present
\* but malformed, badly signed, expired or without a sub claim is answered
\* 401, and its handler does not run.
C2_InvalidTokenIs401 ==
    (last.n > 0 /\ last.route \in ProtectedRoutes /\ last.cred \in InvalidTokens)
        => (last.status = HTTP_401_UNAUTHORIZED /\ ~ last.acquired)

\* C3: on every route other than login, a request without bearer credentials
\* is answered 403 in the step that receives it, the pools and the tables
\* untouched, and never reaches a handler.
C3_NoHeaderIs403 ==
    [][/\ (/\ last'.n = last.n + 1
           /\ last'.cred = NoCredentials
           /\ last'.route \in ProtectedRoutes)
          => (/\ last'.status = HTTP_403_FORBIDDEN
              /\ nRequests' = nRequests + 1
              /\ UNCHANGED <<tables, db_pool, req>>)
       /\ \A r \in Reqs :
            (req'[r].pc # "idle" /\ req'[r].route \in ProtectedRoutes)
              => req'[r].cred # NoCredentials]_vars

C3_Witness ==
    /\ last.route = "inform4"
    /\ last.cred = NoCredentials
    /\ last.status = HTTP_403_FORBIDDEN
    /\ db_pool[Server].used = 1

\* C4 as claimed: the token of a login as L yields L at any time strictly
\* before issuance + 24 hours, is rejected at any time after issuance + 24
\* hours, and only issued tokens are accepted.
C4_ValidFor24Hours ==
    /\ \A i \in issued :
         (last.route = "beaches" /\ last.cred = i.token /\ last.t >= i.at)
           => /\ last.t < i.at + ExpireTicks => last.username = i.login
              /\ last.t > i.at + ExpireTicks => last.username = None
    /\ (last.route = "beaches" /\ last.username # None)
         => \E i \in issued : i.token = last.cred

\* The expiry a token issued at instant t carries: t + 24 hours, cut to a
\* whole second.
ExpiryOf(t) == ((t + 24 * 60 * 60 * TicksPerSecond) \div TicksPerSecond) * TicksPerSecond

\* C4, amended: the token of a login as L carries L and the expiry above;
\* presented strictly before that expiry it yields L, presented at or after
\* it is answered 401; a token that was never issued yields no user.
C4_ValidUntilExpiry ==
    /\ \A i \in issued :
         /\ i.token.kind = "jwt"
         /\ i.token.sub = i.login
         /\ i.token.exp * TicksPerSecond = ExpiryOf(i.at)
         /\ (last.route = "beaches" /\ last.cred = i.token)
              => IF last.t < ExpiryOf(i.at)
                 THEN last.username = i.login /\ last.acquired
                 ELSE last.username = None /\ last.status = HTTP_401_UNAUTHORIZED
    /\ (last.route = "beaches" /\ last.username # None)
         => \E i \in issued : i.token = last.cred
    /\ \A r \in Reqs :
         (req[r].pc # "idle" /\ req[r].route = "beaches")
           => \E i \in issued : i.token = req[r].cred /\ i.login = req[r].username

C4_Witness ==
    \E i \in issued :
      /\ last.route = "beaches"
      /\ last.cred = i.token
      /\ last.username = i.login
      /\ last.status = HTTP_200_OK
      /\ last.t = i.at + ExpireTicks - TicksPerSecond

\* Whether password P matches the stored password S, as the claim defines it.
PasswordMatches(P, S) ==
    IF Len(S) >= 4 /\ SubSeq(S, 1, 4) = "$2b$"
    THEN \E salt \in Salts : S = "$2b$" \o salt \o Digest(salt, P)
    ELSE P = S

\* C5: a login with (L, P) that completes (no storage fault) is answered 200
\* with a token if an account L is stored and its password matches P, and
\* 401 without a token in every other case.
C5_LoginIffPasswordMatches ==
    (last.route = "login" /\ ~ last.fault)
      => LET L == last.body.login.s
             P == last.body.password.s
         IN IF \E u \in usuarios : u.login = L /\ PasswordMatches(P, u.password)
            THEN last.status = HTTP_200_OK /\ last.token.kind = "jwt"
            ELSE last.status = HTTP_401_UNAUTHORIZED /\ last.token = NoCredentials

SubmitRoutes == {"inform2", "inform4"}

\* C6: the row a submission creates carries as username the sub of the
\* valid token of its request, whatever the body says; no row carries
\* another username.
C6_UsernameIsTokenSub ==
    /\ (last.route \in SubmitRoutes /\ last.status = 200)
         => /\ last.cred.kind = "jwt"
            /\ last.cred.sig = <<SECRET_KEY, last.cred.sub, last.cred.exp>>
            /\ \E row \in IF last.route = "inform2" THEN inform2_submissions
                                                   ELSE inform4_submissions :
                 row.id = last.id /\ row.username = last.cred.sub
    /\ \A row \in inform2_submissions \cup inform4_submissions :
         row.username \in {"alice", "bob"}
    /\ \A r \in Reqs : \A row \in req[r].tx : row.username = req[r].cred.sub

C6_Witness ==
    /\ last.route = "inform2"
    /\ last.status = 200
    /\ "username" \in DOMAIN last.body
    /\ last.cred.sub = "bob"
    /\ last.body.username.s = "alice"
    /\ \E row \in inform2_submissions : row.id = last.id /\ row.username = "bob"

\* The JSON type a declared type names.
JsonTypes(type) ==
    CASE type = "str" -> {"str"}
      [] type = "int" -> {"int"}
      [] type = "float" -> {"int", "float"}
      [] type = "List[str]" -> {"list"}

MissingField(body, model) == \E f \in DOMAIN model : f \notin DOMAIN body

WrongType(body, model) ==
    \E f \in DOMAIN model \cap DOMAIN body : body[f].t \notin JsonTypes(model[f])

\* A value no conversion takes to the declared type: of another JSON type,
\* and not a string that spells a number where a number is declared.
Unconvertible(body, model) ==
    \E f \in DOMAIN model \cap DOMAIN body :
      /\ body[f].t \notin JsonTypes(model[f])
      /\ ~ (/\ body[f].t = "str"
            /\ \/ model[f] = "int" /\ IsDigits(body[f].s)
               \/ model[f] = "float" /\ IsDecimal(body[f].s))

ModelOf(route) == IF route = "inform2" THEN Inform2Submission ELSE Inform4Submission

\* C7 as claimed: a submission with a valid token whose body lacks a required
\* field or has a field of the wrong type is answered 422, no connection
\* acquired.
C7_BadBodyIs422 ==
    (/\ last.route \in SubmitRoutes
     /\ last.username # None
     /\ \/ MissingField(last.body, ModelOf(last.route))
        \/ WrongType(last.body, ModelOf(last.route)))
      => (last.status = 422 /\ ~ last.acquired)

\* C7, amended: a submission with a valid token whose body lacks a required
\* field or has a field whose value cannot be converted to the declared type
\* (a numeric string is converted to a number) is answered 422 in the step
\* that receives it, the pools, the tables and the requests in flight
\* untouched; no such body reaches a handler.
C7_UnconvertibleBodyIs422 ==
    [][/\ (/\ last'.n = last.n + 1
           /\ last'.route \in SubmitRoutes
           /\ last'.username # None
           /\ \/ MissingField(last'.body, ModelOf(last'.route))
              \/ Unconvertible(last'.body, ModelOf(last'.route)))
          => (/\ last'.status = 422
              /\ nRequests' = nRequests + 1
              /\ UNCHANGED <<tables, db_pool, req>>)
       /\ \A r \in Reqs :
            (req'[r].pc # "idle" /\ req'[r].route \in SubmitRoutes)
              => /\ ~ MissingField(req'[r].body, ModelOf(req'[r].route))
                 /\ ~ Unconvertible(req'[r].body, ModelOf(req'[r].route))]_vars

C7_Witness ==
    /\ last.route = "inform2"
    /\ last.username = "alice"
    /\ "age" \notin DOMAIN last.body
    /\ last.status = 422
    /\ inform2_submissions = {}
    /\ db_pool[Server].used = 1

SeededCatalog(bs, ps) ==
    /\ Cardinality(bs) = 3
    /\ {b.name : b \in bs} = {"Santa Monica Beach", "Venice Beach", "Malibu Beach"}
    /\ Cardinality(ps) = 9
    /\ \A b \in bs :
         /\ Cardinality({q \in ps : q.beach_id = b.id}) = 3
         /\ {q.name : q \in {q \in ps : q.beach_id = b.id}} = {"Post A", "Post B", "Post C"}

\* C9: as long as no two startups ran at the same time, the catalog is empty
\* or holds exactly the three sample beaches with their three posts each, and
\* it holds them once a startup has completed.
C9_SequentialStartupsSeedOnce ==
    ~ overlap
      => /\ (beaches = {} /\ beach_posts = {}) \/ SeededCatalog(beaches, beach_posts)
         /\ (\E p \in Procs : boot[p].pc = "up") => SeededCatalog(beaches, beach_posts)
         /\ \A p \in Procs :
              boot[p].pc = "commit"
                => (beaches = {} /\ SeededCatalog(boot[p].tx_beaches, boot[p].tx_posts))

C9_Witness ==
    /\ ~ overlap
    /\ nStartups >= 2
    /\ \A p \in Procs : boot[p].pc = "up"
    /\ SeededCatalog(beaches, beach_posts)

\* C10: a GET /beach-posts/{id} with a valid token that meets no storage
\* fault is answered 200 with exactly the posts of beach id, each once: the
\* three sample posts of a seeded beach, and none for an id of no beach.
C10_PostsOfTheBeach ==
    (last.route = "beach_posts" /\ last.username # None)
      => /\ last.status = IF last.fault THEN 500 ELSE 200
         /\ last.status = 200
              => /\ {last.rows[i] : i \in 1 .. Len(last.rows)}
                      = {q \in beach_posts : q.beach_id = last.beach_id}
                 /\ Len(last.rows) =
                      Cardinality({q \in beach_posts : q.beach_id = last.beach_id})
                 /\ IF \E b \in beaches : b.id = last.beach_id
                    THEN [i \in 1 .. Len(last.rows) |-> last.rows[i].name]
                           = <<"Post A", "Post B", "Post C">>
                    ELSE last.rows = <<>>

C10_Witness ==
    /\ last.route = "beach_posts"
    /\ last.status = 200
    /\ last.beach_id = 2
    /\ Len(last.rows) = 3
    /\ \A i \in 1 .. 3 : last.rows[i].beach_id = 2

\* C11: a GET /beaches with a valid token that meets no storage fault is
\* answered 200 with every beach of the catalog, each once, no beach before
\* one of a smaller name; after the startup these are the three sample
\* beaches, Malibu first.
C11_BeachesSortedByName ==
    (last.route = "beaches" /\ last.username # None)
      => /\ last.status = IF last.fault THEN 500 ELSE 200
         /\ last.status = 200
              => /\ {last.rows[i] : i \in 1 .. Len(last.rows)} = beaches
                 /\ Len(last.rows) = Cardinality(beaches)
                 /\ \A i, j \in 1 .. Len(last.rows) :
                      i < j => ~ CollateLess(last.rows[j].name, last.rows[i].name)
                 /\ [i \in 1 .. Len(last.rows) |-> last.rows[i].name]
                      = <<"Malibu Beach", "Santa Monica Beach", "Venice Beach">>

C11_Witness ==
    /\ last.route = "beaches"
    /\ last.username = "alice"
    /\ last.status = 200
    /\ Len(last.rows) = 3
    /\ last.rows[1].name = "Malibu Beach"
    /\ last.rows[1].id = 3

\* C12: the step in which a storage fault ends a submission, at its INSERT
\* or at its commit, answers 500 with the handler's fixed message, leaves
\* both submission tables as they were and drops the row of the open
\* transaction.
C12_FaultRollsBack ==
    [][\A r \in Reqs :
         (/\ req[r].route \in SubmitRoutes
          /\ req[r].pc \in {"try", "commit"}
          /\ req'[r].pc = "idle"
          /\ last'.fault)
           => /\ last'.status = 500
              /\ last'.detail = IF req[r].route = "inform2"
                                THEN "Error submitting Inform 2"
                                ELSE "Error submitting Inform 4"
              /\ last'.id = 0
              /\ UNCHANGED <<inform2_submissions, inform4_submissions>>
              /\ req'[r].tx = {}
              /\ \A row \in req[r].tx :
                   row \notin inform2_submissions' \cup inform4_submissions']_vars

\* A fault at the commit of the first inform2 submission: its id is spent and
\* the table is empty.
C12_Witness ==
    /\ last.route = "inform2"
    /\ last.fault
    /\ last.status = 500
    /\ auto_increment.inform2_submissions = 2
    /\ inform2_submissions = {}
    /\ NoRequestInFlight

\* C13: no step removes or changes a committed submission; a table grows
\* only in the step that answers 200 to a submission of its own route, and
\* then by the one row whose id the response carries.
C13_AppendOnly ==
    [][/\ inform2_submissions \subseteq inform2_submissions'
       /\ inform4_submissions \subseteq inform4_submissions'
       /\ \A route \in SubmitRoutes :
            LET old == IF route = "inform2" THEN inform2_submissions
                                            ELSE inform4_submissions
                new == IF route = "inform2" THEN inform2_submissions'
                                            ELSE inform4_submissions'
                answered == \E r \in Reqs : /\ req[r].route = route
                                            /\ req[r].pc = "commit"
                                            /\ req'[r].pc = "idle"
                                            /\ last'.status = 200
            IN /\ answered => /\ Cardinality(new) = Cardinality(old) + 1
                              /\ last'.id > 0
                              /\ \A row \in new \ old : row.id = last'.id
               /\ new # old => answered]_vars

\* A submission committed, the process stopped and started again, and a
\* second submission committed next to the first.
C13_Witness ==
    /\ nStartups = 2
    /\ boot[Server].pc = "up"
    /\ db_pool[Server].used = 2
    /\ Cardinality(inform2_submissions) = 1
    /\ Cardinality(inform4_submissions) = 1
    /\ last.route = "inform4"
    /\ last.status = 200

\* C14: a shutdown that has begun ends with the pool closed and no
\* connection held.
C14_ShutdownTerminates ==
    \A p \in Procs :
      (db_pool[p].state = "closing")
        ~> (db_pool[p].state = "closed" /\ db_pool[p].used = 0)

\* C15: two processes whose startups both read a count of 0 read it before
\* either committed, and once both have committed the catalog holds the
\* sample set of each: more than three beaches, every name more than once.
C15_RacingStartupsBothInsert ==
    \A p, q \in Procs :
      p # q =>
        /\ (boot[p].pc \in {"insert", "commit"} /\ boot[q].pc \in {"insert", "commit"})
             => /\ overlap
                /\ boot[p].count = 0 /\ boot[q].count = 0
                /\ boot[p].tx_beaches \cap beaches = {}
                /\ boot[q].tx_beaches \cap beaches = {}
        /\ (/\ boot[p].pc = "up" /\ boot[p].count = 0
            /\ boot[q].pc = "up" /\ boot[q].count = 0)
             => /\ overlap
                /\ Cardinality(beaches) > Len(SampleBeaches)
                /\ Cardinality(beach_posts) > Len(SampleBeaches) * Len(SamplePosts)
                /\ \A b \in beaches : \E c \in beaches : c.id # b.id /\ c.name = b.name

C15_Witness ==
    /\ overlap
    /\ \A p \in Procs : boot[p].pc = "up" /\ boot[p].count = 0
    /\ Cardinality(beaches) = 2 * Len(SampleBeaches)
    /\ Cardinality(beach_posts) = 2 * Len(SampleBeaches) * Len(SamplePosts)

\* C16: never more than maxsize requests being in flight, every request
\* that asks the pool for a connection gets one and is answered.
C16_NoPoolExhaustion ==
    \A r \in Reqs :
      /\ (req[r].pc = "acquire") ~> (req[r].pc = "try")
      /\ (req[r].pc = "acquire") ~> (req[r].pc = "idle")

====
